---- MODULE Spec2Model ----
(***************************************************************************)
(* LayeredMolecularEditor helper scripts: the name resolver that is copied *)
(* into check_distance.py, group_atoms.py and obminimize.py, the           *)
(* LME_Mapping class of gasteiger_charges.py, the distance range check,    *)
(* the in-place substitution of group_atoms.py and the neighbor list of    *)
(* xcontrol.py.  Each script is one run: load, resolve/compute, write.     *)
(***************************************************************************)
EXTENDS Integers, Sequences, FiniteSets, TLC

VARIABLES
    script,   \* which script / method is running
    pc,       \* its position
    args,     \* what the run was given: argv and the content of its input files
    M,        \* the loaded JSON record (mapping record, or xcontrol's data)
    result,   \* the locals computed so far
    file      \* the content of the output file

vars == <<script, pc, args, M, result, file>>

----------------------------------------------------------------------------
(* Bounds of the model *)

\* atom indices stored in the tables are 0..MaxIndex
MaxIndex == 1
\* a group holds at most MaxGroupLen indices
MaxGroupLen == 2
\* a query file holds at most MaxQueries queries
MaxQueries == 3
\* distances and range limits are 0..MaxDist
MaxDist == 3
\* xcontrol: at most MaxAtoms atoms and MaxBonds bonds
MaxAtoms == 2
MaxBonds == 2

Indexes == 0..MaxIndex

SeqsUpTo(S, n) == UNION {[1..k -> S] : k \in 0..n}

GroupSeqs == SeqsUpTo(Indexes, MaxGroupLen)

----------------------------------------------------------------------------
(* Python values *)

\* A str is a sequence of one-character strings.  A dict key or a query is a
\* str or an int; the two never compare equal ("0" != 0).
StrKey(s) == [t |-> "str", s |-> s, i |-> 0]
IntKey(i) == [t |-> "int", s |-> <<>>, i |-> i]

\* Optional values: None, or a value
NoneVal == [some |-> FALSE, v |-> <<>>]
Some(x) == [some |-> TRUE, v |-> x]

\* dict.get(key): the value, or None when the key is absent
DictGet(d, k) == IF k \in DOMAIN d THEN Some(d[k]) ELSE NoneVal

\* json.load of a JSON object: every key of the dict is a str
JsonObject(obj) == [k \in {StrKey(s) : s \in DOMAIN obj} |-> obj[k.s]]

\* How a call ends: it returns a list, returns None, or raises with the
\* offending names
Return(v) == [kind |-> "return", val |-> v, err |-> <<>>]
ReturnNone == [kind |-> "None", val |-> <<>>, err |-> <<>>]
Raise(e) == [kind |-> "raise", val |-> <<>>, err |-> e]
Idle == [kind |-> "idle", val |-> <<>>, err |-> <<>>]

----------------------------------------------------------------------------
(* int(name), Python's parse of a str as a base-10 integer: surrounding    *)
(* whitespace is dropped, one sign is allowed, the digits may be separated *)
(* by single underscores; anything else raises ValueError.                 *)

Digits == {"0", "1", "2", "3", "4", "5", "6", "7", "8", "9"}

DigitVal(c) ==
    CASE c = "0" -> 0 [] c = "1" -> 1 [] c = "2" -> 2 [] c = "3" -> 3
      [] c = "4" -> 4 [] c = "5" -> 5 [] c = "6" -> 6 [] c = "7" -> 7
      [] c = "8" -> 8 [] c = "9" -> 9

RECURSIVE LStrip(_)
LStrip(s) == IF s # <<>> /\ Head(s) = " " THEN LStrip(Tail(s)) ELSE s

RECURSIVE RStrip(_)
RStrip(s) ==
    IF s # <<>> /\ s[Len(s)] = " " THEN RStrip(SubSeq(s, 1, Len(s) - 1)) ELSE s

Strip(s) == RStrip(LStrip(s))

Unsigned(s) == IF s # <<>> /\ Head(s) \in {"+", "-"} THEN Tail(s) ELSE s

Sign(s) == IF s # <<>> /\ Head(s) = "-" THEN -1 ELSE 1

WellFormedDigits(b) ==
    /\ b # <<>>
    /\ Head(b) \in Digits
    /\ b[Len(b)] \in Digits
    /\ \A k \in 1..Len(b) :
          /\ b[k] \in Digits \cup {"_"}
          /\ (b[k] = "_" => b[k + 1] # "_")

RECURSIVE DigitsValue(_, _)
DigitsValue(b, acc) ==
    IF b = <<>> THEN acc
    ELSE IF Head(b) = "_" THEN DigitsValue(Tail(b), acc)
    ELSE DigitsValue(Tail(b), 10 * acc + DigitVal(Head(b)))

\* int(s) does not raise ValueError
IntParses(s) == WellFormedDigits(Unsigned(Strip(s)))

\* the value of int(s) when it parses
IntOf(s) == Sign(Strip(s)) * DigitsValue(Unsigned(Strip(s)), 0)

----------------------------------------------------------------------------
(* convert_name_to_index, as copied into three scripts *)

convert_name_to_index_swapped(name, ids, groups) ==
    IF IntParses(name) THEN Return(<<IntOf(name)>>)
    ELSE IF DictGet(ids, StrKey(name)).some
         THEN Return(<<DictGet(ids, StrKey(name)).v>>)
    ELSE IF DictGet(groups, StrKey(name)).some
         THEN Return(DictGet(groups, StrKey(name)).v)
    ELSE Raise(<<StrKey(name)>>)

convert_name_to_index_silent(name, ids, groups) ==
    IF IntParses(name) THEN Return(<<IntOf(name)>>)
    ELSE LET value == DictGet(groups, StrKey(name)) IN
         IF ~value.some
         THEN LET value2 == DictGet(ids, StrKey(name)) IN
              IF ~value2.some THEN Return(<<>>)
              ELSE Return(<<value2.v>>)
         ELSE Return(value.v)

\* check_distance.py
check_distance_convert_name_to_index(name, ids, groups) ==
    IF IntParses(name) THEN Return(<<IntOf(name)>>)
    ELSE LET value == DictGet(groups, StrKey(name)) IN
         IF ~value.some
         THEN LET value2 == DictGet(ids, StrKey(name)) IN
              IF ~value2.some THEN Raise(<<StrKey(name)>>)
              ELSE Return(<<value2.v>>)
         ELSE Return(value.v)

\* group_atoms.py
group_atoms_convert_name_to_index(name, ids, groups) ==
    IF IntParses(name) THEN Return(<<IntOf(name)>>)
    ELSE LET value == DictGet(groups, StrKey(name)) IN
         IF ~value.some
         THEN LET value2 == DictGet(ids, StrKey(name)) IN
              IF ~value2.some THEN Raise(<<StrKey(name)>>)
              ELSE Return(<<value2.v>>)
         ELSE Return(value.v)

\* utils/obminimize.py
obminimize_convert_name_to_index(name, ids, groups) ==
    IF IntParses(name) THEN Return(<<IntOf(name)>>)
    ELSE LET value == DictGet(groups, StrKey(name)) IN
         IF ~value.some
         THEN LET value2 == DictGet(ids, StrKey(name)) IN
              IF ~value2.some THEN Raise(<<StrKey(name)>>)
              ELSE Return(<<value2.v>>)
         ELSE Return(value.v)

----------------------------------------------------------------------------
(* class LME_Mapping of gasteiger_charges.py; self is the record           *)
(* [len, indexes, ids, groups]                                             *)

LME_Mapping(len, indexes, ids, groups) ==
    [len |-> len, indexes |-> indexes, ids |-> ids, groups |-> groups]

\* The mapping file is a JSON object; its four members are passed on as
\* json.load returns them, so every table is keyed by str.
load_from_json(json_data) ==
    LME_Mapping(json_data.len, JsonObject(json_data.indexes),
                JsonObject(json_data.ids), JsonObject(json_data.groups))

convert_index(self, index) == DictGet(self.indexes, IntKey(index))

get_group_indexes(self, group_name) == DictGet(self.groups, group_name)

get_id_index(self, id_name) == DictGet(self.ids, id_name)

convert_name_to_indexes(self, name) ==
    LET id_table_result == get_id_index(self, name) IN
    IF id_table_result.some THEN Some(<<id_table_result.v>>)
    ELSE get_group_indexes(self, name)

convert_query_to_indexes(self, query) ==
    IF query.t = "int"
    THEN LET r == convert_index(self, query.i) IN
         IF r.some THEN Some(<<r.v>>) ELSE NoneVal
    ELSE convert_name_to_indexes(self, query)

RECURSIVE Flatten(_)
Flatten(lists) ==
    IF lists = <<>> THEN <<>> ELSE Head(lists) \o Flatten(Tail(lists))

RECURSIVE BadQueries(_, _)
BadQueries(queries, query_results) ==
    IF queries = <<>> THEN <<>>
    ELSE (IF Head(query_results).some THEN <<>> ELSE <<Head(queries)>>)
         \o BadQueries(Tail(queries), Tail(query_results))

convert_queries_fail_fast(self, queries) ==
    LET query_results ==
            [k \in 1..Len(queries) |-> convert_query_to_indexes(self, queries[k])]
        bad == BadQueries(queries, query_results)
    IN  IF bad # <<>> THEN Raise(<<Head(bad)>>)
        ELSE Return(Flatten([k \in 1..Len(queries) |-> query_results[k].v]))

convert_queries(self, queries) ==
    LET query_results ==
            [k \in 1..Len(queries) |-> convert_query_to_indexes(self, queries[k])]
    IN  IF \E k \in 1..Len(queries) : ~query_results[k].some
        THEN Raise(BadQueries(queries, query_results))
        ELSE Return(Flatten([k \in 1..Len(queries) |-> query_results[k].v]))

\* a list | None as the way the call ended
AsOutcome(opt) == IF opt.some THEN Return(opt.v) ELSE ReturnNone

----------------------------------------------------------------------------
(* Inputs: names and mapping files *)

\* the names a caller may pass: "7", " 7", "ring", "C1", ""
ResolveNames == {<<"7">>, <<" ", "7">>, <<"r", "i", "n", "g">>, <<"C", "1">>, <<>>}

\* the names that may be keys of the tables of a mapping file
ResolveKeys == {<<"7">>, <<"r", "i", "n", "g">>}

\* every JSON object with keys among K and values in V
JsonObjects(K, V) == UNION {[D -> V] : D \in SUBSET K}

MappingFiles(idKeys, groupKeys, indexKeys) ==
    [len : {MaxIndex + 1},
     indexes : JsonObjects(indexKeys, Indexes),
     ids : JsonObjects(idKeys, Indexes),
     groups : JsonObjects(groupKeys, GroupSeqs)]

NoArgs == [query |-> StrKey(<<>>)]
NoMapping == LME_Mapping(0, <<>>, <<>>, <<>>)

----------------------------------------------------------------------------
(* Specification 1: one name resolved against one mapping record *)

InitResolve ==
    /\ script = "none"
    /\ pc = "start"
    /\ args = NoArgs
    /\ M = NoMapping
    /\ result = Idle
    /\ file = <<>>

\* json.load(mapping file) / LME_Mapping.load_from_json
LoadMapping ==
    /\ pc = "start"
    /\ \E f \in MappingFiles(ResolveKeys, ResolveKeys, {}) : M' = load_from_json(f)
    /\ pc' = "loaded"
    /\ UNCHANGED <<script, args, result, file>>

Resolve_check_distance ==
    /\ pc = "loaded"
    /\ \E name \in ResolveNames :
          /\ args' = [query |-> StrKey(name)]
          /\ result' = check_distance_convert_name_to_index(name, M.ids, M.groups)
    /\ script' = "check_distance"
    /\ pc' = "resolved"
    /\ UNCHANGED <<M, file>>

Resolve_group_atoms ==
    /\ pc = "loaded"
    /\ \E name \in ResolveNames :
          /\ args' = [query |-> StrKey(name)]
          /\ result' = group_atoms_convert_name_to_index(name, M.ids, M.groups)
    /\ script' = "group_atoms"
    /\ pc' = "resolved"
    /\ UNCHANGED <<M, file>>

Resolve_obminimize ==
    /\ pc = "loaded"
    /\ \E name \in ResolveNames :
          /\ args' = [query |-> StrKey(name)]
          /\ result' = obminimize_convert_name_to_index(name, M.ids, M.groups)
    /\ script' = "obminimize"
    /\ pc' = "resolved"
    /\ UNCHANGED <<M, file>>

Charge_convert_name_to_indexes ==
    /\ pc = "loaded"
    /\ \E name \in ResolveNames :
          /\ args' = [query |-> StrKey(name)]
          /\ result' = AsOutcome(convert_name_to_indexes(M, StrKey(name)))
    /\ script' = "convert_name_to_indexes"
    /\ pc' = "resolved"
    /\ UNCHANGED <<M, file>>

Charge_convert_query_to_indexes ==
    /\ pc = "loaded"
    /\ \E name \in ResolveNames :
          /\ args' = [query |-> StrKey(name)]
          /\ result' = AsOutcome(convert_query_to_indexes(M, StrKey(name)))
    /\ script' = "convert_query_to_indexes"
    /\ pc' = "resolved"
    /\ UNCHANGED <<M, file>>

\* convert_queries on a query list of one name
Charge_convert_queries_one ==
    /\ pc = "loaded"
    /\ \E name \in ResolveNames :
          /\ args' = [query |-> StrKey(name)]
          /\ result' = convert_queries(M, <<StrKey(name)>>)
    /\ script' = "convert_queries"
    /\ pc' = "resolved"
    /\ UNCHANGED <<M, file>>

NextResolve ==
    \/ LoadMapping
    \/ Resolve_check_distance
    \/ Resolve_group_atoms
    \/ Resolve_obminimize
    \/ Charge_convert_name_to_indexes
    \/ Charge_convert_query_to_indexes
    \/ Charge_convert_queries_one

SpecResolve == InitResolve /\ [][NextResolve]_vars

----------------------------------------------------------------------------
(* Claims about the resolution of one name (SpecResolve) *)

TheThreeScripts == {"check_distance", "group_atoms", "obminimize"}

\* C1 (as stated): a name that is a key of M.groups resolves to exactly
\* M.groups[name], in every resolver, also when it is a key of M.ids.
C1_GroupNameResolvesToGroup ==
    (/\ pc = "resolved"
     /\ script \in TheThreeScripts \cup {"convert_name_to_indexes"}
     /\ args.query \in DOMAIN M.groups)
    => result = Return(M.groups[args.query])

\* C1 (amended): for a key of M.groups, convert_name_to_index returns the
\* group, same elements in the same order, unless the name parses as an
\* integer (then it returns [int(name)]), also when the name is a key of
\* M.ids; LME_Mapping.convert_name_to_indexes returns the group unless the
\* name is a key of M.ids (then it returns [M.ids[name]]).
C1_GroupUnlessIntegerOrIdFirst ==
    (pc = "resolved" /\ args.query \in DOMAIN M.groups) =>
        /\ script \in TheThreeScripts =>
              result = IF IntParses(args.query.s)
                       THEN Return(<<IntOf(args.query.s)>>)
                       ELSE Return(M.groups[args.query])
        /\ script = "convert_name_to_indexes" =>
              result = IF args.query \in DOMAIN M.ids
                       THEN Return(<<M.ids[args.query]>>)
                       ELSE Return(M.groups[args.query])

\* a group of two different indices, whose name is also an atom name, is
\* returned in stored order by group_atoms' resolver
C1_Witness ==
    /\ pc = "resolved"
    /\ script = "group_atoms"
    /\ args.query \in DOMAIN M.groups \cap DOMAIN M.ids
    /\ ~IntParses(args.query.s)
    /\ Len(M.groups[args.query]) = 2
    /\ M.groups[args.query][1] > M.groups[args.query][2]
    /\ result = Return(M.groups[args.query])

\* C2 (as stated): a string that parses as a base-10 integer resolves to
\* [int(s)] whatever the tables hold, in convert_name_to_index and in the
\* string branch of LME_Mapping.convert_query_to_indexes.
C2_IntegerStringShortCircuits ==
    (/\ pc = "resolved"
     /\ script \in TheThreeScripts \cup {"convert_query_to_indexes"}
     /\ IntParses(args.query.s))
    => result = Return(<<IntOf(args.query.s)>>)

\* C4: a name that does not parse as an integer and is a key of neither
\* table makes the resolution fail with exactly that name: the three
\* convert_name_to_index raise with it, convert_name_to_indexes and
\* convert_query_to_indexes report it as None, and convert_queries raises
\* with it.
C4_AbsentNameFailsWithThatName ==
    (/\ pc = "resolved"
     /\ ~IntParses(args.query.s)
     /\ args.query \notin DOMAIN M.ids
     /\ args.query \notin DOMAIN M.groups)
    => /\ script \in TheThreeScripts \cup {"convert_queries"} =>
             result = Raise(<<args.query>>)
       /\ script \in {"convert_name_to_indexes", "convert_query_to_indexes"} =>
             result = ReturnNone

\* check_distance's resolver raised with the name "C1", which is in neither
\* of two non-empty tables
C4_Witness ==
    /\ pc = "resolved"
    /\ script = "check_distance"
    /\ args.query = StrKey(<<"C", "1">>)
    /\ DOMAIN M.ids # {}
    /\ DOMAIN M.groups # {}
    /\ result.kind = "raise"
    /\ result.err = <<args.query>>

\* C7 (as stated): whenever a resolver returns a value, the returned sequence
\* of atom indices is non-empty, also for a record with an empty group.
C7_ReturnedSequenceNonEmpty ==
    (pc = "resolved" /\ result.kind = "return") => Len(result.val) > 0

----------------------------------------------------------------------------
(* Specification 2: one run of gasteiger_charges.py *)

\* the queries a query file may list: the names "A", "B", "C" and the index 0
ChargeQueries == {StrKey(<<"A">>), StrKey(<<"B">>), StrKey(<<"C">>), IntKey(0)}

\* the mapping files of these runs: atom name "A", group name "C", source
\* index "0"
ChargeMappingFiles == MappingFiles({<<"A">>}, {<<"C">>}, {<<"0">>})

\* what the output file may hold before the run
OldFiles == {<<>>, <<"old">>}

\* the charge string the charge engine gives atom atom_idx
GasteigerCharge(atom_idx) == [charge_of |-> atom_idx]

InitCharge ==
    /\ script = "gasteiger_charges"
    /\ pc = "start"
    /\ args = [query_list |-> <<>>, file0 |-> <<>>]
    /\ M = NoMapping
    /\ result = Idle
    /\ file = <<>>

\* lines 61-63: the query file and the mapping file are read
ChargeLoad ==
    /\ pc = "start"
    /\ \E query_list \in SeqsUpTo(ChargeQueries, MaxQueries),
          f \in ChargeMappingFiles, old \in OldFiles :
          /\ args' = [query_list |-> query_list, file0 |-> old]
          /\ M' = load_from_json(f)
          /\ file' = old
    /\ pc' = "loaded"
    /\ UNCHANGED <<script, result>>

\* line 64
ChargeConvertQueries ==
    /\ pc = "loaded"
    /\ result' = convert_queries(M, args.query_list)
    /\ pc' = IF result'.kind = "raise" THEN "failed" ELSE "resolved"
    /\ UNCHANGED <<script, args, M, file>>

\* lines 66-68: the molecule is read and the charge engine runs; either may
\* fail (unreadable molecule, atom index out of range)
ChargeCompute ==
    /\ pc = "resolved"
    /\ \/ /\ pc' = "computed"
          /\ result' = result
       \/ /\ pc' = "failed"
          /\ result' = [kind |-> "collaborator", val |-> <<>>, err |-> <<>>]
    /\ UNCHANGED <<script, args, M, file>>

\* line 69: open(output_file, "w") truncates the file
ChargeOpen ==
    /\ pc = "computed"
    /\ file' = <<>>
    /\ pc' = "opened"
    /\ UNCHANGED <<script, args, M, result>>

\* line 70: the charges of the resolved atoms, in order, joined by ","
ChargeWrite ==
    /\ pc = "opened"
    /\ file' = [k \in 1..Len(result.val) |-> GasteigerCharge(result.val[k])]
    /\ pc' = "done"
    /\ UNCHANGED <<script, args, M, result>>

NextCharge ==
    \/ ChargeLoad
    \/ ChargeConvertQueries
    \/ ChargeCompute
    \/ ChargeOpen
    \/ ChargeWrite

SpecCharge == InitCharge /\ [][NextCharge]_vars

----------------------------------------------------------------------------
(* Claims about batch resolution (SpecCharge) *)

\* a query the loaded record has an entry for
HasEntry(q) ==
    \/ q \in DOMAIN M.indexes /\ q.t = "int"
    \/ q.t = "str" /\ (q \in DOMAIN M.ids \/ q \in DOMAIN M.groups)

\* the indices of one query, read off the tables
EntryOf(q) ==
    IF q.t = "int" THEN <<M.indexes[q]>>
    ELSE IF q \in DOMAIN M.ids THEN <<M.ids[q]>>
    ELSE M.groups[q]

RECURSIVE EntriesUpTo(_, _)
EntriesUpTo(qs, k) ==
    IF k = 0 THEN <<>> ELSE EntriesUpTo(qs, k - 1) \o EntryOf(qs[k])

Converted == pc \in {"failed", "resolved", "computed", "opened", "done"}

\* C3: convert_queries fails, once, iff some query has no entry, and then
\* the payload lists exactly the queries without an entry, in input order,
\* and no result is returned; otherwise it returns the concatenation of the
\* queries' index sequences in query order.
C3_BatchReportsAllMisses ==
    (Converted /\ result.kind # "collaborator") =>
        LET qs == args.query_list
            Miss(q) == ~HasEntry(q)
        IN  IF \E k \in 1..Len(qs) : Miss(qs[k])
            THEN /\ pc = "failed"
                 /\ result.kind = "raise"
                 /\ result.err = SelectSeq(qs, Miss)
                 /\ result.val = <<>>
            ELSE /\ pc # "failed"
                 /\ result = Return(EntriesUpTo(qs, Len(qs)))

\* a batch of three with two different misses around a query that has an
\* entry: both misses are reported, in input order, and nothing else
C3_Witness ==
    /\ pc = "failed"
    /\ Len(args.query_list) = 3
    /\ ~HasEntry(args.query_list[1])
    /\ HasEntry(args.query_list[2])
    /\ ~HasEntry(args.query_list[3])
    /\ args.query_list[1] # args.query_list[3]
    /\ result.err = <<args.query_list[1], args.query_list[3]>>

\* C8 (as stated): with a record loaded by load_from_json, an integer query
\* i resolves to [i] as it is, and convert_queries does not report it.
C8_IntegerQueryTakenAsIs ==
    (Converted /\ result.kind # "collaborator") =>
        \A k \in 1..Len(args.query_list) :
            LET q == args.query_list[k] IN
            q.t = "int" =>
                /\ convert_query_to_indexes(M, q) = Some(<<q.i>>)
                /\ \A j \in 1..Len(result.err) : result.err[j] # q

----------------------------------------------------------------------------
(* Specification 3: one run of check_distance.py *)

\* A float: a number, or NaN, which float() accepts ("nan") and for which
\* every comparison is False.
Num(x) == [nan |-> FALSE, x |-> x]
NaN == [nan |-> TRUE, x |-> 0]

FloatLt(a, b) == ~a.nan /\ ~b.nan /\ a.x < b.x
FloatGt(a, b) == ~a.nan /\ ~b.nan /\ a.x > b.x
FloatLe(a, b) == ~a.nan /\ ~b.nan /\ a.x <= b.x

\* what the caller may give as min and max
RangeLimits == {Num(x) : x \in 0..MaxDist} \cup {NaN}

\* the names a caller may pass for the two atoms: "C1", "ring", "1", "X"
DistanceNames == {<<"C", "1">>, <<"r", "i", "n", "g">>, <<"1">>, <<"X">>}

\* the side-car mapping of the molecule
DistanceMappingFile ==
    [len |-> 2, indexes |-> <<>>,
     ids |-> (<<"C", "1">> :> 0),
     groups |-> (<<"r", "i", "n", "g">> :> <<0, 1>>)]

NoDistance ==
    [kind |-> "idle", err |-> <<>>, idx_a |-> 0, idx_b |-> 0, distance |-> Num(0)]

InitDistance ==
    /\ script = "check_distance"
    /\ pc = "start"
    /\ args = [a |-> <<>>, b |-> <<>>, min_value |-> Num(0), max_value |-> Num(0)]
    /\ M = NoMapping
    /\ result = NoDistance
    /\ file = <<>>

\* lines 24-39: argv is unpacked, the molecule and its mapping are read
DistanceLoad ==
    /\ pc = "start"
    /\ \E a \in DistanceNames, b \in DistanceNames,
          lo \in RangeLimits, hi \in RangeLimits :
          args' = [a |-> a, b |-> b, min_value |-> lo, max_value |-> hi]
    /\ M' = load_from_json(DistanceMappingFile)
    /\ pc' = "loaded"
    /\ UNCHANGED <<script, result, file>>

\* lines 41-44: both names are resolved, then [[idx_a], [idx_b]] unpacks the
\* two lists, which fails unless each has exactly one element
DistanceResolve ==
    /\ pc = "loaded"
    /\ LET ra == check_distance_convert_name_to_index(args.a, M.ids, M.groups)
           rb == check_distance_convert_name_to_index(args.b, M.ids, M.groups)
       IN  IF ra.kind = "raise"
           THEN /\ result' = [result EXCEPT !.kind = "raise", !.err = ra.err]
                /\ pc' = "failed"
           ELSE IF rb.kind = "raise"
           THEN /\ result' = [result EXCEPT !.kind = "raise", !.err = rb.err]
                /\ pc' = "failed"
           ELSE IF Len(ra.val) # 1 \/ Len(rb.val) # 1
           THEN /\ result' = [result EXCEPT !.kind = "unpack"]
                /\ pc' = "failed"
           ELSE /\ result' = [result EXCEPT !.kind = "resolved",
                                            !.idx_a = ra.val[1],
                                            !.idx_b = rb.val[1]]
                /\ pc' = "resolved"
    /\ UNCHANGED <<script, args, M, file>>

\* lines 49-52: the molecule store measures the distance of the two atoms
DistanceMeasure ==
    /\ pc = "resolved"
    /\ \E d \in 0..MaxDist : result' = [result EXCEPT !.distance = Num(d)]
    /\ pc' = "measured"
    /\ UNCHANGED <<script, args, M, file>>

range_check_inclusive(distance, min_value, max_value) ==
    IF ~FloatGt(distance, min_value) THEN "too close"
    ELSE IF ~FloatLt(distance, max_value) THEN "too far away"
    ELSE "pass"

\* lines 53-56
range_check(distance, min_value, max_value) ==
    IF FloatLt(distance, min_value) THEN "too close"
    ELSE IF FloatGt(distance, max_value) THEN "too far away"
    ELSE "pass"

DistanceCheck ==
    /\ pc = "measured"
    /\ result' = [result EXCEPT
                     !.kind = range_check(result.distance, args.min_value,
                                          args.max_value)]
    /\ pc' = IF result'.kind = "pass" THEN "done" ELSE "failed"
    /\ UNCHANGED <<script, args, M, file>>

NextDistance ==
    \/ DistanceLoad
    \/ DistanceResolve
    \/ DistanceMeasure
    \/ DistanceCheck

SpecDistance == InitDistance /\ [][NextDistance]_vars

----------------------------------------------------------------------------
(* Claims about the distance check (SpecDistance) *)

Checked == result.kind \in {"pass", "too close", "too far away"}

\* C5 (as stated): for every distance d and every min and max given by the
\* caller, the run passes iff min <= d <= max, d < min gives "too close" and
\* d > max gives "too far away".
C5_PassIffInRange ==
    Checked =>
        /\ (pc = "done") <=>
              (FloatLe(args.min_value, result.distance)
                  /\ FloatLe(result.distance, args.max_value))
        /\ FloatLt(result.distance, args.min_value) => result.kind = "too close"
        /\ FloatGt(result.distance, args.max_value) => result.kind = "too far away"

\* C5 (amended): the run passes iff neither d < min nor d > max holds, which
\* for limits that are numbers is min <= d <= max, so d = min and d = max
\* pass; d < min gives "too close"; d > max gives "too far away" unless
\* d < min as well (min > max), where the lower limit, tested first, gives
\* "too close".
C5_PassIffNeitherLimitBroken ==
    Checked =>
        /\ (pc = "done") <=> result.kind = "pass"
        /\ (pc = "failed") <=> result.kind # "pass"
        /\ result.kind = "pass" <=>
              (~FloatLt(result.distance, args.min_value)
                  /\ ~FloatGt(result.distance, args.max_value))
        /\ (~args.min_value.nan /\ ~args.max_value.nan) =>
              (result.kind = "pass" <=>
                  (args.min_value.x <= result.distance.x
                      /\ result.distance.x <= args.max_value.x))
        /\ FloatLt(result.distance, args.min_value) => result.kind = "too close"
        /\ (FloatGt(result.distance, args.max_value)
               /\ ~FloatLt(result.distance, args.min_value))
              => result.kind = "too far away"

\* a distance on the upper limit of a proper range passes
C5_Witness ==
    /\ pc = "done"
    /\ result.kind = "pass"
    /\ ~args.min_value.nan
    /\ ~args.max_value.nan
    /\ args.min_value.x < args.max_value.x
    /\ result.distance = args.max_value

----------------------------------------------------------------------------
(* Specification 4: one run of xcontrol.py *)

\* A bond endpoint as json.load gives it: an int, or a value that is no
\* number (null), which JSON allows in that place.
JInt(i) == [t |-> "int", i |-> i]
JNull == [t |-> "null", i |-> 0]

Endpoints == {JInt(i) : i \in 0..MaxAtoms} \cup {JNull}

\* data["bonds"], each bond [a, b, order] kept as <<a, b>>: line 11 drops
\* the order
BondLists == SeqsUpTo(Endpoints \X Endpoints, MaxBonds)

\* a line of the control file, or of what the file held before
Line(kind, idx, nbs) == [kind |-> kind, idx |-> idx, nbs |-> nbs]

OldControlFiles == {<<>>, <<Line("old", 0, <<>>)>>}

\* a == i for a JSON value a and an int i
JEq(a, i) == a.t = "int" /\ a.i = i

RECURSIVE neighbors_of(_, _)
neighbors_one_way(i, bonds) ==
    IF bonds = <<>> THEN <<>>
    ELSE LET a == Head(bonds)[1]
             b == Head(bonds)[2]
         IN  (IF JEq(a, i) THEN <<b>> ELSE <<>>)
                 \o neighbors_of(i, Tail(bonds))

\* line 13, the list of atom i:
\* [a if a != i else b for [a, b] in bonds if a == i or b == i]
neighbors_of(i, bonds) ==
    IF bonds = <<>> THEN <<>>
    ELSE LET a == Head(bonds)[1]
             b == Head(bonds)[2]
         IN  (IF JEq(a, i) \/ JEq(b, i)
              THEN <<IF ~JEq(a, i) THEN a ELSE b>>
              ELSE <<>>)
                 \o neighbors_of(i, Tail(bonds))

\* lines 12-14: the dict i -> list, for i in range(len(data["atoms"]))
neighbor_dict(atoms, bonds) == [i \in 0..(atoms - 1) |-> neighbors_of(i, bonds)]

\* str(neighbor + 1) raises TypeError for a neighbor that is no number
Renders(nbs) == \A k \in 1..Len(nbs) : nbs[k].t = "int"

InitXcontrol ==
    /\ script = "xcontrol"
    /\ pc = "start"
    /\ args = [file0 |-> <<>>]
    /\ M = [atoms |-> 0, bonds |-> <<>>]
    /\ result = [bonds |-> <<>>, idx |-> 0]
    /\ file = <<>>

\* lines 7-9: the JSON file is read; the control file holds what it held
XLoad ==
    /\ pc = "start"
    /\ \E atoms \in 0..MaxAtoms, bonds \in BondLists, old \in OldControlFiles :
          /\ M' = [atoms |-> atoms, bonds |-> bonds]
          /\ args' = [file0 |-> old]
          /\ file' = old
    /\ pc' = "loaded"
    /\ UNCHANGED <<script, result>>

\* lines 10-14
XBuild ==
    /\ pc = "loaded"
    /\ result' = [bonds |-> neighbor_dict(M.atoms, M.bonds), idx |-> 0]
    /\ pc' = "built"
    /\ UNCHANGED <<script, args, M, file>>

\* line 15: open(x_control_name, "w") truncates the file
XOpen ==
    /\ pc = "built"
    /\ file' = <<>>
    /\ pc' = "opened"
    /\ UNCHANGED <<script, args, M, result>>

\* line 16
XWriteHeader ==
    /\ pc = "opened"
    /\ file' = Append(file, Line("$ffnb", 0, <<>>))
    /\ pc' = "lines"
    /\ UNCHANGED <<script, args, M, result>>

\* lines 17-18, one turn of the loop: the line of atom idx is formatted and
\* written; a TypeError in the formatting leaves the with block, which
\* closes the file with what was written so far
XWriteLine ==
    /\ pc = "lines"
    /\ result.idx < M.atoms
    /\ LET nbs == result.bonds[result.idx] IN
       IF Renders(nbs)
       THEN /\ file' = Append(file, Line("nb", result.idx + 1,
                                         [k \in 1..Len(nbs) |-> nbs[k].i + 1]))
            /\ result' = [result EXCEPT !.idx = result.idx + 1]
            /\ pc' = "lines"
       ELSE /\ pc' = "failed"
            /\ UNCHANGED <<file, result>>
    /\ UNCHANGED <<script, args, M>>

\* line 19
XWriteEnd ==
    /\ pc = "lines"
    /\ result.idx = M.atoms
    /\ file' = Append(file, Line("$end", 0, <<>>))
    /\ pc' = "done"
    /\ UNCHANGED <<script, args, M, result>>

NextXcontrol ==
    \/ XLoad
    \/ XBuild
    \/ XOpen
    \/ XWriteHeader
    \/ XWriteLine
    \/ XWriteEnd

SpecXcontrol == InitXcontrol /\ [][NextXcontrol]_vars

----------------------------------------------------------------------------
(* Claims about xcontrol (SpecXcontrol) *)

\* C6 (as stated): a run either succeeds and leaves the complete output in
\* the output file, or fails and leaves the file as it was before the run.
C6_AllOrNothing ==
    /\ pc = "failed" => file = args.file0
    /\ pc = "done" =>
          /\ Len(file) = M.atoms + 2
          /\ file[1].kind = "$ffnb"
          /\ file[Len(file)].kind = "$end"

\* how often value x occurs in the sequence s
Occurrences(s, x) == Cardinality({k \in 1..Len(s) : s[k] = x})

\* the other endpoint of a bond that has atom i as an endpoint
OtherEnd(bond, i) == IF bond[1] = JInt(i) THEN bond[2] ELSE bond[1]

\* the positions in the bond list of the bonds with endpoint i
BondsAt(i) ==
    {k \in 1..Len(M.bonds) : M.bonds[k][1] = JInt(i) \/ M.bonds[k][2] = JInt(i)}

\* the other endpoints of the first k bonds that have endpoint i
RECURSIVE OtherEndsUpTo(_, _)
OtherEndsUpTo(i, k) ==
    IF k = 0 THEN <<>>
    ELSE OtherEndsUpTo(i, k - 1)
             \o (IF k \in BondsAt(i) THEN <<OtherEnd(M.bonds[k], i)>> ELSE <<>>)

Built == pc \in {"built", "opened", "lines", "failed", "done"}

\* C10: there is one list for each atom index 0..len(atoms)-1, bonded or
\* not; the list of i holds, in bond-list order and once per bond, the other
\* endpoint of every bond with endpoint i; so for distinct atoms i and j of
\* the range, j is in i's list as often as i is in j's, and i is in its own
\* list only once per self-bond.  The finished file has the nb lines in
\* increasing i, atom and neighbors written 1-based, between "$ffnb" and
\* "$end".
C10_NeighborLists ==
    Built =>
        /\ DOMAIN result.bonds = 0..(M.atoms - 1)
        /\ \A i \in 0..(M.atoms - 1) :
              /\ result.bonds[i] = OtherEndsUpTo(i, Len(M.bonds))
              /\ Len(result.bonds[i]) = Cardinality(BondsAt(i))
              /\ Occurrences(result.bonds[i], JInt(i))
                    = Occurrences(M.bonds, <<JInt(i), JInt(i)>>)
              /\ \A j \in 0..(M.atoms - 1) :
                    i # j => Occurrences(result.bonds[i], JInt(j))
                                = Occurrences(result.bonds[j], JInt(i))
        /\ pc = "done" =>
              /\ Len(file) = M.atoms + 2
              /\ file[1] = Line("$ffnb", 0, <<>>)
              /\ file[M.atoms + 2] = Line("$end", 0, <<>>)
              /\ \A i \in 0..(M.atoms - 1) :
                    /\ file[i + 2].kind = "nb"
                    /\ file[i + 2].idx = i + 1
                    /\ Len(file[i + 2].nbs) = Len(result.bonds[i])
                    /\ \A k \in 1..Len(result.bonds[i]) :
                          file[i + 2].nbs[k] = result.bonds[i][k].i + 1

\* a finished file for two atoms, one of them with no bond, the other with
\* a self-bond and a bond to an atom outside the range
C10_Witness ==
    /\ pc = "done"
    /\ M.atoms = 2
    /\ M.bonds = <<<<JInt(1), JInt(1)>>, <<JInt(2), JInt(1)>>>>
    /\ file[2] = Line("nb", 1, <<>>)
    /\ file[3] = Line("nb", 2, <<2, 3>>)

----------------------------------------------------------------------------
(* Specification 5: one run of group_atoms.py *)

DigitChar(d) ==
    CASE d = 0 -> "0" [] d = 1 -> "1" [] d = 2 -> "2" [] d = 3 -> "3"
      [] d = 4 -> "4" [] d = 5 -> "5" [] d = 6 -> "6" [] d = 7 -> "7"
      [] d = 8 -> "8" [] d = 9 -> "9"

RECURSIVE NatStr(_)
NatStr(n) ==
    IF n < 10 THEN <<DigitChar(n)>>
    ELSE NatStr(n \div 10) \o <<DigitChar(n % 10)>>

\* str(value) of an int
str(value) == IF value < 0 THEN <<"-">> \o NatStr(-value) ELSE NatStr(value)

\* sep.join(items)
RECURSIVE join(_, _)
join(sep, items) ==
    IF items = <<>> THEN <<>>
    ELSE IF Len(items) = 1 THEN Head(items)
    ELSE Head(items) \o sep \o join(sep, Tail(items))

\* s.replace(old, new): every occurrence of old, left to right and not
\* overlapping; an empty old matches before every character and at the end
RECURSIVE replace(_, _, _)
replace(s, old, new) ==
    IF old = <<>>
    THEN IF s = <<>> THEN new ELSE new \o <<Head(s)>> \o replace(Tail(s), old, new)
    ELSE IF Len(s) < Len(old) THEN s
    ELSE IF SubSeq(s, 1, Len(old)) = old
         THEN new \o replace(SubSeq(s, Len(old) + 1, Len(s)), old, new)
    ELSE <<Head(s)>> \o replace(Tail(s), old, new)

flag_is_not_false(starts_from_1) == starts_from_1 # "false"

\* line 32
flag_is_true(starts_from_1) == starts_from_1 = "true"

\* line 42
render(split, values, starts_from_1) ==
    join(split, [k \in 1..Len(values) |->
                    str(IF ~starts_from_1 THEN values[k] ELSE values[k] + 1)])

\* the names a caller may pass: "ring", "C1", "9", "-1", "X"
GroupNames ==
    {<<"r", "i", "n", "g">>, <<"C", "1">>, <<"9">>, <<"-", "1">>, <<"X">>}

GroupMappingFiles == MappingFiles({<<"C", "1">>}, {<<"r", "i", "n", "g">>}, {})

\* the input file: "a$b", "$$", "a"
InputContents == {<<"a", "$", "b">>, <<"$", "$">>, <<"a">>}

Patterns == {<<"$">>}

\* the delimiter: ",", "", ", "
Delimiters == {<<",">>, <<>>, <<",", " ">>}

\* spellings of the last argument
FlagSpellings == {"true", "True", "1", "false"}

NoRender ==
    [kind |-> "idle", val |-> <<>>, err |-> <<>>, text |-> <<>>, content |-> <<>>]

InitGroup ==
    /\ script = "group_atoms"
    /\ pc = "start"
    /\ args = [pattern |-> <<>>, split |-> <<>>, group_name |-> <<>>,
               starts_from_1 |-> "false", file0 |-> <<>>]
    /\ M = NoMapping
    /\ result = NoRender
    /\ file = <<>>

\* lines 23-38: argv is unpacked, the input file and the mapping are read
GroupLoad ==
    /\ pc = "start"
    /\ \E content \in InputContents, pattern \in Patterns, split \in Delimiters,
          group_name \in GroupNames, f \in GroupMappingFiles,
          starts_from_1 \in FlagSpellings :
          /\ args' = [pattern |-> pattern, split |-> split,
                      group_name |-> group_name,
                      starts_from_1 |-> starts_from_1, file0 |-> content]
          /\ M' = load_from_json(f)
          /\ file' = content
          /\ result' = [result EXCEPT !.content = content]
    /\ pc' = "loaded"
    /\ UNCHANGED script

\* line 40
GroupResolve ==
    /\ pc = "loaded"
    /\ LET r == group_atoms_convert_name_to_index(args.group_name, M.ids, M.groups)
       IN  /\ result' = [result EXCEPT !.kind = r.kind, !.val = r.val, !.err = r.err]
           /\ pc' = IF r.kind = "raise" THEN "failed" ELSE "resolved"
    /\ UNCHANGED <<script, args, M, file>>

\* line 42
GroupRender ==
    /\ pc = "resolved"
    /\ result' = [result EXCEPT
                     !.text = render(args.split, result.val,
                                     flag_is_true(args.starts_from_1))]
    /\ pc' = "rendered"
    /\ UNCHANGED <<script, args, M, file>>

\* line 44
GroupReplace ==
    /\ pc = "rendered"
    /\ result' = [result EXCEPT
                     !.content = replace(result.content, args.pattern, result.text)]
    /\ pc' = "replaced"
    /\ UNCHANGED <<script, args, M, file>>

\* line 46: open(input_file, "w") truncates the file
GroupOpen ==
    /\ pc = "replaced"
    /\ file' = <<>>
    /\ pc' = "opened"
    /\ UNCHANGED <<script, args, M, result>>

\* line 47
GroupWrite ==
    /\ pc = "opened"
    /\ file' = result.content
    /\ pc' = "done"
    /\ UNCHANGED <<script, args, M, result>>

NextGroup ==
    \/ GroupLoad
    \/ GroupResolve
    \/ GroupRender
    \/ GroupReplace
    \/ GroupOpen
    \/ GroupWrite

SpecGroup == InitGroup /\ [][NextGroup]_vars

----------------------------------------------------------------------------
(* Claims about group_atoms (SpecGroup) *)

Rendered == pc \in {"rendered", "replaced", "opened", "done"}

\* the number of characters of the decimal form of v
Width(v) ==
    LET n == IF v < 0 THEN -v ELSE v IN
    (IF v < 0 THEN 1 ELSE 0) + (IF n < 10 THEN 1 ELSE IF n < 100 THEN 2 ELSE 3)

\* piece is the decimal form of v: sign and digits only, no char too many
IsDecimalOf(piece, v) ==
    /\ Len(piece) = Width(v)
    /\ \A k \in 1..Len(piece) : piece[k] \in Digits \cup {"-"}
    /\ IntParses(piece)
    /\ IntOf(piece) = v

\* where the k-th rendered index starts in the text
RECURSIVE StartOf(_, _, _)
StartOf(k, values, sepLen) ==
    IF k = 1 THEN 1
    ELSE StartOf(k - 1, values, sepLen) + Width(values[k - 1]) + sepLen

\* the text is the decimal forms of values, in order, split in between
IsJoinOf(text, values, split) ==
    IF values = <<>> THEN text = <<>>
    ELSE LET n == Len(values)
             last == StartOf(n, values, Len(split)) + Width(values[n]) - 1
         IN  /\ Len(text) = last
             /\ \A k \in 1..n :
                   LET from == StartOf(k, values, Len(split))
                       to == from + Width(values[k]) - 1
                   IN  /\ IsDecimalOf(SubSeq(text, from, to), values[k])
                       /\ k < n => SubSeq(text, to + 1, to + Len(split)) = split

\* the first k characters of the input with every occurrence of the
\* one-character pattern replaced by the text
RECURSIVE Substituted(_, _, _)
Substituted(content, k, text) ==
    IF k = 0 THEN <<>>
    ELSE Substituted(content, k - 1, text)
             \o (IF <<content[k]>> = args.pattern THEN text ELSE <<content[k]>>)

SubstitutionIs(offset) ==
    Rendered =>
        /\ IsJoinOf(result.text,
                    [k \in 1..Len(result.val) |-> result.val[k] + offset],
                    args.split)
        /\ pc \in {"replaced", "opened", "done"} =>
              result.content = Substituted(args.file0, Len(args.file0), result.text)
        /\ pc = "done" => file = result.content

\* C9 (as stated): the substituted text is the resolved indices in stored
\* order, joined by the delimiter, each index v written as v + 1 when the
\* flag is set and as v when it is not; every truthy spelling sets the flag.
C9_RenderedListAnyTruthyFlag ==
    SubstitutionIs(IF args.starts_from_1 \in {"true", "True", "1"} THEN 1 ELSE 0)

\* C9 (amended): the same, but the flag is set only by the exact string
\* "true"; every other spelling ("True", "1", ...) leaves the indices
\* 0-based.
C9_RenderedListExactTrueFlag ==
    SubstitutionIs(IF args.starts_from_1 = "true" THEN 1 ELSE 0)

\* the group [1, 0] written 1-based with "," into "a$b" gives "a2,1b"
C9_Witness ==
    /\ pc = "done"
    /\ args.starts_from_1 = "true"
    /\ args.split = <<",">>
    /\ args.file0 = <<"a", "$", "b">>
    /\ result.val = <<1, 0>>
    /\ file = <<"a", "2", ",", "1", "b">>

====
